---------------------------- MODULE Spec2Model ----------------------------
(***************************************************************************)
(* Authentication and e-mail verification core of digi-clinic.             *)
(*                                                                         *)
(* The database tables are the variables users, tokens, patient_profiles   *)
(* and consultant_profiles.  Time is counted in minutes.  Under Spec every *)
(* HTTP handler runs to completion as one action (requests are served one  *)
(* after the other); under SpecConc the verification handlers of two       *)
(* workers interleave at the granularity of single ORM statements, each of *)
(* which the database runs atomically (autocommit).                        *)
(*                                                                         *)
(* The serializers are modelled by the validation they declare (field      *)
(* validators and validate()); the rendering of a response body is not     *)
(* modelled.                                                               *)
(***************************************************************************)
EXTENDS Integers, Sequences, FiniteSets, TLC

\* ------------------------------------------------------------------ bounds
MaxTokens == 4
MaxTicks == 2
MaxSessions == 2

\* ------------------------------------------------------- program constants
TokenLifetimeHours == 24
ThrottleWindow == 5
ThrottleLimit == 3
MinPasswordLength == 8

TokenLifetime == TokenLifetimeHours * 60

None == "None"
NoUser == 0
NoToken == 0
NullTime == 0 - 1
NoEmail == [local |-> "", domain |-> ""]
NoEntry == [is_online |-> FALSE, last_seen |-> NullTime]
NoMail == [attempts |-> 0, failed |-> FALSE]

\* ------------------------------------------------------------------ inputs
Emails ==
    { [local |-> "a", domain |-> "x.com"],
      [local |-> "a", domain |-> "X.com"],
      [local |-> "b", domain |-> "x.com"] }

ValidPassword == "pw12345678"

Passwords == {ValidPassword, "short"}

\* The addresses spelled as they are stored.
Lowercase == {e \in Emails : e.domain = "x.com"}

\* The addresses of one mailbox, as a client may spell them.
Mailbox == {e \in Emails : e.local = "a"}

PasswordLength(p) == IF p = "short" THEN 5 ELSE 10

ROLE_CHOICES == {"patient", "consultant", "admin"}

TokenIds == 1..(MaxTokens + 1)

TickSteps == {1, ThrottleWindow, TokenLifetime}

Procs == {1, 2}

\* The primary keys users can get: one per distinct stored address.
UserIds == 1..Cardinality({[e EXCEPT !.domain = "x.com"] : e \in Emails})

\* What a client may present as a refresh token: nothing (0), a token handed
\* out, or a string that is no token.
RefreshInputs == 0..(MaxSessions + Cardinality(UserIds) + 1)

\* mail is the delivery made for the request served last: the number of
\* send_mail calls and whether the last one failed.
VARIABLES users, tokens, patient_profiles, consultant_profiles,
          now, ticks, allow_inactive, resp, redeemed, procs,
          refresh_tokens, blacklist, cache, cache_up, mail,
          provision_attempts, reviews, consultant_rating

vars == <<users, tokens, patient_profiles, consultant_profiles,
          now, ticks, allow_inactive, resp, redeemed, procs,
          refresh_tokens, blacklist, cache, cache_up, mail,
          provision_attempts, reviews, consultant_rating>>

\* The reviews and the cached rating of each consultant profile, in
\* hundredths (a DecimalField with two decimal places).
feedback == <<reviews, consultant_rating>>

\* The refresh tokens handed out and the ones revoked.
session == <<refresh_tokens, blacklist>>

\* The presence cache and whether the cache backend answers.
presence == <<cache, cache_up>>

db == <<users, tokens, patient_profiles, consultant_profiles>>

\* ------------------------------------------------------------ pure helpers
Lower(s) == IF s = "X.com" THEN "x.com" ELSE s

normalize_email(e) == [e EXCEPT !.domain = Lower(e.domain)]

make_password(p) == <<"hashed", p>>

check_password(raw, stored) == stored = make_password(raw)

UserByEmail(us, e) ==
    IF \E i \in DOMAIN us : us[i].email = e
    THEN CHOOSE i \in DOMAIN us : us[i].email = e
    ELSE NoUser

\* ------------------------------------------------------- token table (ORM)
\* Mutant: the token expires at expires_at, not after it.
Mut_is_expired_AtExpiry(tok, t) == t >= tok.expires_at

is_expired(tok, t) == t > tok.expires_at

\* Mutant: the expiry left out of the validity test.
Mut_is_valid_IgnoresExpiry(tok, t) == ~tok.is_used

is_valid(tok, t) == ~tok.is_used /\ ~is_expired(tok, t)

\* Mutant: the unused tokens of the user are deleted instead of marked used.
Mut_InvalidateUnused_Deletes(toks, u) ==
    SelectSeq(toks, LAMBDA tok : tok.user # u \/ tok.is_used)

\* Mutant: the UPDATE of the unused tokens left out.
Mut_InvalidateUnused_Skipped(toks, u) == toks

InvalidateUnused(toks, u) ==
    [i \in DOMAIN toks |->
        IF toks[i].user = u /\ ~toks[i].is_used
        THEN [toks[i] EXCEPT !.is_used = TRUE]
        ELSE toks[i]]

CreateToken(toks, u, t) ==
    Append(toks, [user |-> u, created_at |-> t,
                  expires_at |-> t + TokenLifetime, is_used |-> FALSE])

\* Mutant: the throttle counts only the unused tokens.
Mut_RecentTokenCount_UnusedOnly(toks, u, t) ==
    Cardinality({i \in DOMAIN toks :
                    /\ toks[i].user = u
                    /\ ~toks[i].is_used
                    /\ toks[i].created_at >= t - ThrottleWindow})

RecentTokenCount(toks, u, t) ==
    Cardinality({i \in DOMAIN toks :
                    toks[i].user = u /\ toks[i].created_at >= t - ThrottleWindow})

\* The two writes of send_verification_email, in order.
IssueToken(toks, u, t) == CreateToken(InvalidateUnused(toks, u), u, t)

\* ------------------------------------------------------ profile provisioning
\* INSERT into a profile table: the user column is one-to-one (unique) and the
\* consultant table's speciality column is NOT NULL with no default.
InsertPatientProfile(rows, u) ==
    IF u \in rows
    THEN [rows |-> rows, error |-> "IntegrityError"]
    ELSE [rows |-> rows \cup {u}, error |-> None]

InsertConsultantProfile(rows, u, speciality) ==
    IF speciality = None \/ u \in rows
    THEN [rows |-> rows, error |-> "IntegrityError"]
    ELSE [rows |-> rows \cup {u}, error |-> None]

\* post_save receiver: runs on creation, swallows every failure.  attempts is
\* the number of profile INSERTs it issued.
create_user_profile(pp, cp, u, role) ==
    IF role = "patient"
    THEN [pp |-> InsertPatientProfile(pp, u).rows, cp |-> cp, attempts |-> 1]
    ELSE IF role = "consultant"
         THEN [pp |-> pp, cp |-> InsertConsultantProfile(cp, u, None).rows,
               attempts |-> 1]
         ELSE [pp |-> pp, cp |-> cp, attempts |-> 0]

\* Mutant: a new user starts verified.
Mut_NewUser_Verified(email, password, role, t) ==
    [email |-> email, password |-> make_password(password), role |-> role,
     is_active |-> TRUE, is_online |-> FALSE, is_verified |-> TRUE,
     last_seen |-> t, email_verified_at |-> t]

NewUser(email, password, role, t) ==
    [email |-> email, password |-> make_password(password), role |-> role,
     is_active |-> TRUE, is_online |-> FALSE, is_verified |-> FALSE,
     last_seen |-> t, email_verified_at |-> NullTime]

\* Mutant: the email column carries no unique constraint.
Mut_create_user_NoUniqueConstraint(us, pp, cp, email, password, role, t) ==
    LET us2 == Append(us, NewUser(normalize_email(email), password, role, t))
        u == Len(us2)
        prof == create_user_profile(pp, cp, u, role)
    IN [users |-> us2, pp |-> prof.pp, cp |-> prof.cp, user |-> u,
        error |-> None, attempts |-> prof.attempts]

\* UserManager.create_user: normalise, hash, INSERT (email is unique), then the
\* post_save receiver.
create_user(us, pp, cp, email, password, role, t) ==
    LET e == normalize_email(email) IN
    IF \E i \in DOMAIN us : us[i].email = e
    THEN [users |-> us, pp |-> pp, cp |-> cp, user |-> NoUser,
          error |-> "IntegrityError", attempts |-> 0]
    ELSE LET us2 == Append(us, NewUser(e, password, role, t))
             u == Len(us2)
             prof == create_user_profile(pp, cp, u, role)
         IN [users |-> us2, pp |-> prof.pp, cp |-> prof.cp, user |-> u,
             error |-> None, attempts |-> prof.attempts]

register_user(us, pp, cp, email, password, role, t) ==
    IF \E i \in DOMAIN us : us[i].email = email
    THEN [users |-> us, pp |-> pp, cp |-> cp, user |-> NoUser,
          error |-> "User with this email already exists", attempts |-> 0]
    ELSE LET cu == create_user(us, pp, cp, email, password, role, t) IN
         IF cu.error # None
         THEN cu
         ELSE IF role = "consultant"
              THEN LET ins == InsertConsultantProfile(cu.cp, cu.user, None) IN
                   IF ins.error # None
                   THEN [cu EXCEPT !.user = NoUser, !.error = ins.error,
                                   !.attempts = @ + 1]
                   ELSE [cu EXCEPT !.cp = ins.rows, !.attempts = @ + 1]
              ELSE cu

\* ------------------------------------------------------------ authentication
\* django.contrib.auth.authenticate as the service calls it: look the user up
\* by the e-mail as given, check the password, and let the configured backend
\* decide whether an inactive user may authenticate.
authenticate(us, email, password, allowInactive) ==
    LET u == UserByEmail(us, email) IN
    IF u = NoUser THEN NoUser
    ELSE IF ~check_password(password, us[u].password) THEN NoUser
    ELSE IF ~us[u].is_active /\ ~allowInactive THEN NoUser
    ELSE u

\* Mutant: the is_active test after authenticate() left out.
Mut_authenticate_user_NoActiveTest(us, email, password, allowInactive) ==
    LET u == authenticate(us, email, password, allowInactive) IN
    IF u # NoUser
    THEN [user |-> u, error |-> None]
    ELSE [user |-> NoUser, error |-> "Invalid Credentials"]

authenticate_user(us, email, password, allowInactive) ==
    LET u == authenticate(us, email, password, allowInactive) IN
    IF u # NoUser
    THEN IF ~us[u].is_active
         THEN [user |-> NoUser, error |-> "User accont is deactivated"]
         ELSE [user |-> u, error |-> None]
    ELSE [user |-> NoUser, error |-> "Invalid Credentials"]

\* The authoritative half of update_user_status: the two fields and save().
\* Mutant: the status is not written to the user row.
Mut_update_user_status_NotSaved(us, u, online, t) == us

update_user_status(us, u, online, t) ==
    [us EXCEPT ![u].is_online = online, ![u].last_seen = t]

\* cache.set of the user's status entry; it raises when the backend is down.
cache_set(c, u, online, t, up) ==
    IF up
    THEN [cache |-> [c EXCEPT ![u] = [is_online |-> online, last_seen |-> t]],
          raised |-> None]
    ELSE [cache |-> c, raised |-> "ConnectionError"]

\* Mutant: the cache is written before the row is saved, so a cache failure
\* skips the save.
Mut_UpdateUserStatus_CacheBeforeSave(us, c, u, online, t, up) ==
    LET cs == cache_set(c, u, online, t, up) IN
    [users |-> IF cs.raised = None
               THEN update_user_status(us, u, online, t)
               ELSE us,
     cache |-> cs.cache, raised |-> None]

\* AuthenticationService.update_user_status as a whole: save(), then
\* cache.set, all inside try/except Exception, so nothing leaves the call.
UpdateUserStatus(us, c, u, online, t, up) ==
    LET cs == cache_set(c, u, online, t, up) IN
    [users |-> update_user_status(us, u, online, t),
     cache |-> cs.cache, raised |-> None]

\* -------------------------------------------------------------- refresh tokens
\* RefreshToken.for_user: a newly signed token; its identifier is its position
\* among the tokens handed out, its payload the user.
for_user(rts, u) == Append(rts, u)

\* Mutant: the constructor does not consult the blacklist.
Mut_RefreshToken_NoBlacklistCheck(rts, bl, raw) ==
    IF raw \notin DOMAIN rts
    THEN [user |-> NoUser, error |-> "Token is invalid or expired"]
    ELSE [user |-> rts[raw], error |-> None]

\* RefreshToken(raw): decode and verify the signature, then the blacklist
\* (token_blacklist is installed: the code calls blacklist()).  A raw value
\* that is no token handed out does not verify.
RefreshToken(rts, bl, raw) ==
    IF raw \notin DOMAIN rts
    THEN [user |-> NoUser, error |-> "Token is invalid or expired"]
    ELSE IF raw \in bl
    THEN [user |-> NoUser, error |-> "Token is blacklisted"]
    ELSE [user |-> rts[raw], error |-> None]

mark_email_verified(us, u, t) ==
    [us EXCEPT ![u].is_verified = TRUE, ![u].email_verified_at = t]

\* ------------------------------------------------------- e-mail verification
\* mail_ok is the outcome of rendering and sending the message: a failure is
\* caught after both writes have been done.
\* Mutant: a failed delivery undoes the two writes.
Mut_send_verification_email_RollbackOnFailure(toks, u, t, mail_ok) ==
    [tokens |-> IF mail_ok THEN IssueToken(toks, u, t) ELSE toks,
     sent |-> mail_ok, attempts |-> 1, raised |-> None]

\* Mutant: no except clause, a failed delivery leaves the call as an exception.
Mut_send_verification_email_RaisesOnFailure(toks, u, t, mail_ok) ==
    [tokens |-> IssueToken(toks, u, t), sent |-> mail_ok, attempts |-> 1,
     raised |-> IF mail_ok THEN None ELSE "SMTPException"]

\* attempts is the number of send_mail calls; the except clause turns every
\* failure into the return value False.
send_verification_email(toks, u, t, mail_ok) ==
    [tokens |-> IssueToken(toks, u, t), sent |-> mail_ok, attempts |-> 1,
     raised |-> None]

\* Mutant: the redeemed token is not written back as used.
Mut_verify_email_token_NotMarkedUsed(us, toks, tid, t) ==
    IF tid \notin DOMAIN toks
    THEN [users |-> us, tokens |-> toks, user |-> NoUser, error |-> None,
          raised |-> "UnboundLocalError"]
    ELSE IF ~is_valid(toks[tid], t)
    THEN [users |-> us, tokens |-> toks, user |-> NoUser,
          error |-> IF is_expired(toks[tid], t)
                    THEN "Verification link has expired"
                    ELSE "Verification link has already been used",
          raised |-> None]
    ELSE [users |-> mark_email_verified(us, toks[tid].user, t),
          tokens |-> toks,
          user |-> toks[tid].user, error |-> None, raised |-> None]

\* An unknown identifier reaches the DoesNotExist handler, whose log line
\* reads the local `user` before it is bound: the handler raises
\* UnboundLocalError, which leaves the service.
\* Mutant: the token is marked used before its validity is tested.
Mut_verify_email_token_MarksBeforeCheck(us, toks, tid, t) ==
    IF tid \notin DOMAIN toks
    THEN [users |-> us, tokens |-> toks, user |-> NoUser, error |-> None,
          raised |-> "UnboundLocalError"]
    ELSE IF ~is_valid(toks[tid], t)
    THEN [users |-> us, tokens |-> [toks EXCEPT ![tid].is_used = TRUE],
          user |-> NoUser,
          error |-> IF is_expired(toks[tid], t)
                    THEN "Verification link has expired"
                    ELSE "Verification link has already been used",
          raised |-> None]
    ELSE [users |-> mark_email_verified(us, toks[tid].user, t),
          tokens |-> [toks EXCEPT ![tid].is_used = TRUE],
          user |-> toks[tid].user, error |-> None, raised |-> None]

verify_email_token(us, toks, tid, t) ==
    IF tid \notin DOMAIN toks
    THEN [users |-> us, tokens |-> toks, user |-> NoUser, error |-> None,
          raised |-> "UnboundLocalError"]
    ELSE IF ~is_valid(toks[tid], t)
    THEN [users |-> us, tokens |-> toks, user |-> NoUser,
          error |-> IF is_expired(toks[tid], t)
                    THEN "Verification link has expired"
                    ELSE "Verification link has already been used",
          raised |-> None]
    ELSE [users |-> mark_email_verified(us, toks[tid].user, t),
          tokens |-> [toks EXCEPT ![tid].is_used = TRUE],
          user |-> toks[tid].user, error |-> None, raised |-> None]

\* Mutant: the is_verified test left out.
Mut_resend_verification_email_NoVerifiedTest(us, toks, u, t, mail_ok) ==
    IF RecentTokenCount(toks, u, t) >= ThrottleLimit
    THEN [tokens |-> toks, success |-> FALSE, attempts |-> 0,
          message |-> "Too many verification emails sent"]
    ELSE LET s == send_verification_email(toks, u, t, mail_ok) IN
         IF s.sent
         THEN [tokens |-> s.tokens, success |-> TRUE, attempts |-> s.attempts,
               message |-> "Verification sent successfully to email"]
         ELSE [tokens |-> s.tokens, success |-> FALSE, attempts |-> s.attempts,
               message |-> "Failed to send verification email"]

\* Mutant: the throttle refuses only above the limit, not at it.
Mut_resend_verification_email_AboveLimit(us, toks, u, t, mail_ok) ==
    IF us[u].is_verified
    THEN [tokens |-> toks, success |-> FALSE, attempts |-> 0,
          message |-> "Email is already verified"]
    ELSE IF RecentTokenCount(toks, u, t) > ThrottleLimit
    THEN [tokens |-> toks, success |-> FALSE, attempts |-> 0,
          message |-> "Too many verification emails sent"]
    ELSE LET s == send_verification_email(toks, u, t, mail_ok) IN
         IF s.sent
         THEN [tokens |-> s.tokens, success |-> TRUE, attempts |-> s.attempts,
               message |-> "Verification sent successfully to email"]
         ELSE [tokens |-> s.tokens, success |-> FALSE, attempts |-> s.attempts,
               message |-> "Failed to send verification email"]

resend_verification_email(us, toks, u, t, mail_ok) ==
    IF us[u].is_verified
    THEN [tokens |-> toks, success |-> FALSE, attempts |-> 0,
          message |-> "Email is already verified"]
    ELSE IF RecentTokenCount(toks, u, t) >= ThrottleLimit
    THEN [tokens |-> toks, success |-> FALSE, attempts |-> 0,
          message |-> "Too many verification emails sent"]
    ELSE LET s == send_verification_email(toks, u, t, mail_ok) IN
         IF s.sent
         THEN [tokens |-> s.tokens, success |-> TRUE, attempts |-> s.attempts,
               message |-> "Verification sent successfully to email"]
         ELSE [tokens |-> s.tokens, success |-> FALSE, attempts |-> s.attempts,
               message |-> "Failed to send verification email"]

\* ------------------------------------------------------------------ responses
\* The last response served: the handler, its input (an e-mail or a token
\* identifier), the HTTP status, the user returned, the error or message, the
\* user the returned access/refresh pair was issued for, and the exception
\* that left the handler, if any.
Response(op, email, token, status, user, error, auth, raised) ==
    [op |-> op, email |-> email, token |-> token, status |-> status,
     user |-> user, error |-> error, auth |-> auth, raised |-> raised]

NoResponse == Response(None, NoEmail, NoToken, 0, NoUser, None, NoUser, None)

IdleProc == [pc |-> "idle", user |-> NoUser, tok |-> NoToken, row |-> <<>>]

InitTables ==
    /\ users = <<>>
    /\ tokens = <<>>
    /\ patient_profiles = {}
    /\ consultant_profiles = {}
    /\ now = 0
    /\ ticks = 0
    /\ resp = NoResponse
    /\ redeemed = [t \in TokenIds |-> 0]
    /\ procs = [p \in Procs |-> IdleProc]
    /\ refresh_tokens = <<>>
    /\ blacklist = {}
    /\ cache = [u \in UserIds |-> NoEntry]
    /\ cache_up = TRUE
    /\ mail = NoMail
    /\ provision_attempts = <<>>
    /\ reviews = {}
    /\ consultant_rating = [u \in UserIds |-> 0]

\* AUTHENTICATION_BACKENDS is a deployment setting: Django's default backend
\* rejects inactive users, AllowAllUsersModelBackend lets them through.
Init == InitTables /\ allow_inactive = FALSE

InitAuth == InitTables /\ allow_inactive \in BOOLEAN

\* ------------------------------------------------- handlers, run to completion
\* UserRegistrationSerializer.is_valid(): the model field's unique validator
\* on email, min_length on password, and validate().
RegistrationValid(us, email, password, password_confirm) ==
    /\ ~\E i \in DOMAIN us : us[i].email = email
    /\ PasswordLength(password) >= MinPasswordLength
    /\ password = password_confirm

\* serializer.errors, by the reason reported for the first failing check.
RegistrationError(us, email, password, password_confirm) ==
    IF \E i \in DOMAIN us : us[i].email = email
    THEN "user with this email already exists."
    ELSE IF PasswordLength(password) < MinPasswordLength
    THEN "Ensure this field has at least 8 characters."
    ELSE IF password # password_confirm
    THEN "Password doesnt match"
    ELSE None

Register(email, password, password_confirm, role, mail_ok) ==
    /\ Len(tokens) < MaxTokens
    /\ UNCHANGED <<now, ticks, allow_inactive, feedback, redeemed, procs, blacklist,
                   cache_up>>
    /\ IF ~RegistrationValid(users, email, password, password_confirm)
       THEN /\ resp' = Response("register", email, NoToken, 422, NoUser,
                                RegistrationError(users, email, password,
                                                  password_confirm),
                                NoUser, None)
            /\ mail' = NoMail
            /\ UNCHANGED <<db, refresh_tokens, cache, provision_attempts>>
       ELSE LET r == register_user(users, patient_profiles, consultant_profiles,
                                   email, password, role, now)
            IN /\ patient_profiles' = r.pp
               /\ consultant_profiles' = r.cp
               /\ provision_attempts' =
                     IF Len(r.users) > Len(users)
                     THEN Append(provision_attempts, r.attempts)
                     ELSE provision_attempts
               /\ IF r.user = NoUser
                  THEN /\ users' = r.users
                       /\ mail' = NoMail
                       /\ UNCHANGED <<tokens, refresh_tokens, cache>>
                       /\ resp' = Response("register", email, NoToken, 400,
                                           NoUser, r.error, NoUser, None)
                  ELSE LET s == send_verification_email(tokens, r.user, now, mail_ok)
                           a == authenticate_user(r.users, email, password,
                                                  allow_inactive)
                       IN /\ tokens' = s.tokens
                          /\ mail' = [attempts |-> s.attempts,
                                      failed |-> ~s.sent]
                          /\ IF s.raised # None
                             THEN /\ users' = r.users
                                  /\ UNCHANGED <<refresh_tokens, cache>>
                                  /\ resp' = Response("register", email, NoToken,
                                                      500, NoUser, None, NoUser,
                                                      s.raised)
                             ELSE IF a.user # NoUser
                             THEN LET st == UpdateUserStatus(r.users, cache, a.user,
                                                             TRUE, now, cache_up)
                                  IN /\ users' = st.users
                                     /\ cache' = st.cache
                                     /\ refresh_tokens' =
                                           for_user(refresh_tokens, a.user)
                                     /\ resp' = Response("register", email,
                                                         NoToken, 201, a.user,
                                                         None, a.user, st.raised)
                             ELSE /\ users' = r.users
                                  /\ UNCHANGED <<refresh_tokens, cache>>
                                  /\ resp' = Response("register", email, NoToken,
                                                      500, NoUser, a.error,
                                                      NoUser, None)

Login(email, password) ==
    /\ Len(refresh_tokens) < MaxSessions
    /\ UNCHANGED <<tokens, patient_profiles, consultant_profiles,
                   now, ticks, allow_inactive, feedback, redeemed, procs, blacklist,
                   cache_up, provision_attempts>>
    /\ mail' = NoMail
    /\ LET a == authenticate_user(users, email, password, allow_inactive) IN
       IF a.user # NoUser
       THEN LET st == UpdateUserStatus(users, cache, a.user, TRUE, now, cache_up)
            IN /\ users' = st.users
               /\ cache' = st.cache
               /\ refresh_tokens' = for_user(refresh_tokens, a.user)
               /\ resp' = Response("login", email, NoToken, 200, a.user, None,
                                   a.user, st.raised)
       ELSE /\ UNCHANGED <<users, refresh_tokens, cache>>
            /\ resp' = Response("login", email, NoToken, 401, NoUser, a.error,
                                NoUser, None)

\* IsAuthenticated: the request carries an access token of an active user;
\* access tokens are handed out together with refresh tokens.
Authenticated(u) ==
    /\ u \in DOMAIN users
    /\ users[u].is_active
    /\ \E k \in DOMAIN refresh_tokens : refresh_tokens[k] = u

\* views.logout for request.user = u; raw = NoToken is a body without
\* refresh_token.
Logout(u, raw) ==
    /\ Authenticated(u)
    /\ UNCHANGED <<tokens, patient_profiles, consultant_profiles,
                   now, ticks, allow_inactive, feedback, redeemed, procs, refresh_tokens,
                   cache_up, provision_attempts>>
    /\ mail' = NoMail
    /\ IF raw # NoToken /\ RefreshToken(refresh_tokens, blacklist, raw).error # None
       THEN /\ UNCHANGED <<users, blacklist, cache>>
            /\ resp' = Response("logout", users[u].email, raw, 401, NoUser,
                                "Invalid refresh token", NoUser, None)
       ELSE LET st == UpdateUserStatus(users, cache, u, FALSE, now, cache_up) IN
            /\ blacklist' = IF raw # NoToken THEN blacklist \cup {raw}
                            ELSE blacklist
            /\ users' = st.users
            /\ cache' = st.cache
            /\ resp' = Response("logout", users[u].email, raw, 200, NoUser,
                                "logged out successfully", NoUser, st.raised)

\* views.token_refresh_custom; raw = NoToken is a body without refresh.
TokenRefresh(raw) ==
    /\ UNCHANGED <<tokens, patient_profiles, consultant_profiles,
                   now, ticks, allow_inactive, feedback, redeemed, procs, session,
                   cache_up, provision_attempts>>
    /\ mail' = NoMail
    /\ IF raw = NoToken
       THEN /\ UNCHANGED <<users, cache>>
            /\ resp' = Response("token_refresh", NoEmail, raw, 400, NoUser,
                                "Refresh token is required", NoUser, None)
       ELSE LET r == RefreshToken(refresh_tokens, blacklist, raw) IN
            IF r.error # None \/ r.user \notin DOMAIN users
            THEN /\ UNCHANGED <<users, cache>>
                 /\ resp' = Response("token_refresh", NoEmail, raw, 401, NoUser,
                                     "Invalid refresh token", NoUser, None)
            ELSE LET st == UpdateUserStatus(users, cache, r.user, TRUE, now,
                                            cache_up)
                 IN /\ users' = st.users
                    /\ cache' = st.cache
                    /\ resp' = Response("token_refresh", NoEmail, raw, 200,
                                        r.user, None, r.user, st.raised)

\* The cache backend goes down or comes back.
CacheOutage(up) ==
    /\ cache_up # up
    /\ cache_up' = up
    /\ UNCHANGED <<db, now, ticks, allow_inactive, feedback, resp, redeemed, procs,
                   session, cache, mail, provision_attempts>>

VerifyEmail(tid) ==
    /\ UNCHANGED <<patient_profiles, consultant_profiles,
                   now, ticks, allow_inactive, feedback, session, presence,
                   provision_attempts, procs>>
    /\ mail' = NoMail
    /\ LET v == verify_email_token(users, tokens, tid, now) IN
       /\ users' = v.users
       /\ tokens' = v.tokens
       /\ redeemed' = IF v.user # NoUser
                      THEN [redeemed EXCEPT ![tid] = @ + 1]
                      ELSE redeemed
       /\ resp' = Response("verify_email", NoEmail, tid,
                           IF v.raised # None THEN 500
                           ELSE IF v.user # NoUser THEN 200 ELSE 400,
                           v.user, v.error, NoUser, v.raised)

ResendVerification(email, mail_ok) ==
    /\ UNCHANGED <<users, patient_profiles, consultant_profiles,
                   now, ticks, allow_inactive, feedback, session, presence,
                   provision_attempts, redeemed, procs>>
    /\ LET u == UserByEmail(users, email) IN
       IF u = NoUser
       THEN /\ UNCHANGED tokens
            /\ mail' = NoMail
            /\ resp' = Response("resend_verification", email, NoToken, 404,
                                NoUser, "user with this email does not exist",
                                NoUser, None)
       ELSE LET r == resend_verification_email(users, tokens, u, now, mail_ok) IN
            /\ Len(r.tokens) <= MaxTokens
            /\ tokens' = r.tokens
            /\ mail' = [attempts |-> r.attempts,
                        failed |-> r.attempts > 0 /\ ~r.success]
            /\ resp' = Response("resend_verification", email, NoToken,
                                IF r.success THEN 200 ELSE 400,
                                u, r.message, NoUser, None)

\* views.send_verification_email_authenticated for request.user = u.
SendVerificationAuthenticated(u, mail_ok) ==
    /\ Authenticated(u)
    /\ UNCHANGED <<users, patient_profiles, consultant_profiles,
                   now, ticks, allow_inactive, feedback, session, presence,
                   provision_attempts, redeemed, procs>>
    /\ IF users[u].is_verified
       THEN /\ UNCHANGED tokens
            /\ mail' = NoMail
            /\ resp' = Response("send_verification", users[u].email, NoToken,
                                400, u, "Email is already sent", NoUser, None)
       ELSE LET r == resend_verification_email(users, tokens, u, now, mail_ok) IN
            /\ Len(r.tokens) <= MaxTokens
            /\ tokens' = r.tokens
            /\ mail' = [attempts |-> r.attempts,
                        failed |-> r.attempts > 0 /\ ~r.success]
            /\ resp' = Response("send_verification", users[u].email, NoToken,
                                IF r.success THEN 200 ELSE 400,
                                u, r.message, NoUser, None)

\* The admin change form edits is_active.
AdminSetActive(u, active) ==
    /\ u \in DOMAIN users
    /\ users[u].is_active # active
    /\ users' = [users EXCEPT ![u].is_active = active]
    /\ UNCHANGED <<tokens, patient_profiles, consultant_profiles,
                   now, ticks, allow_inactive, feedback, session, presence, mail,
                   provision_attempts, resp, redeemed, procs>>

\* timezone.now() moves on between requests.
Tick(d) ==
    /\ ticks < MaxTicks
    /\ now' = now + d
    /\ ticks' = ticks + 1
    /\ UNCHANGED <<db, allow_inactive, feedback, session, presence, mail,
                   provision_attempts, resp, redeemed, procs>>

\* One mailbox over time: registration, resend and redemption as the clock
\* runs through the throttle window and the token lifetime.
Next ==
    \/ \E e \in Mailbox, c \in Passwords, r \in ROLE_CHOICES, m \in BOOLEAN :
          Register(e, ValidPassword, c, r, m)
    \/ \E t \in TokenIds : VerifyEmail(t)
    \/ \E e \in Mailbox, m \in BOOLEAN : ResendVerification(e, m)
    \/ \E d \in TickSteps : Tick(d)

Spec == Init /\ [][Next]_vars

\* Two patients' mailboxes, the clock moving a token lifetime at a time.
NextUsers ==
    \/ \E e \in Lowercase :
          Register(e, ValidPassword, ValidPassword, "patient", TRUE)
    \/ \E t \in TokenIds : VerifyEmail(t)
    \/ \E e \in Lowercase, m \in BOOLEAN : ResendVerification(e, m)
    \/ Tick(TokenLifetime)

SpecUsers == Init /\ [][NextUsers]_vars

\* ------------------------------------ handlers, one ORM statement per step
\* A worker's request in flight: its position and the rows it has read into
\* Python objects (the user or token identifier and the row's fields).
Resending == {p \in Procs : procs[p].pc \in {"resend_count", "send_invalidate",
                                             "send_create"}}

\* views.resend_verification_email up to the service call: User.objects.get.
StartResend(p, email) ==
    /\ procs[p].pc = "idle"
    /\ Len(tokens) + Cardinality(Resending) < MaxTokens
    /\ UserByEmail(users, email) # NoUser
    /\ procs' = [procs EXCEPT ![p] =
                    [pc |-> "resend_count", user |-> UserByEmail(users, email),
                     tok |-> NoToken,
                     row |-> users[UserByEmail(users, email)]]]
    /\ UNCHANGED <<db, now, ticks, allow_inactive, feedback, session, presence, mail,
                   provision_attempts, resp, redeemed>>

\* resend_verification_email: the is_verified test on the object read at the
\* start, then the COUNT query and the throttle test.
ResendCount(p) ==
    /\ procs[p].pc = "resend_count"
    /\ UNCHANGED <<db, now, ticks, allow_inactive, feedback, session, presence, mail,
                   provision_attempts, resp, redeemed>>
    /\ IF \/ procs[p].row.is_verified
          \/ RecentTokenCount(tokens, procs[p].user, now) >= ThrottleLimit
       THEN procs' = [procs EXCEPT ![p] = IdleProc]
       ELSE procs' = [procs EXCEPT ![p].pc = "send_invalidate"]

\* send_verification_email: the UPDATE of the user's unused tokens.
SendInvalidate(p) ==
    /\ procs[p].pc = "send_invalidate"
    /\ tokens' = InvalidateUnused(tokens, procs[p].user)
    /\ procs' = [procs EXCEPT ![p].pc = "send_create"]
    /\ UNCHANGED <<users, patient_profiles, consultant_profiles,
                   now, ticks, allow_inactive, feedback, session, presence, mail,
                   provision_attempts, resp, redeemed>>

\* send_verification_email: the INSERT of the new token; the mail follows and
\* the call returns.
SendCreate(p) ==
    /\ procs[p].pc = "send_create"
    /\ tokens' = CreateToken(tokens, procs[p].user, now)
    /\ mail' = [attempts |-> 1, failed |-> FALSE]
    /\ procs' = [procs EXCEPT ![p] = IdleProc]
    /\ UNCHANGED <<users, patient_profiles, consultant_profiles,
                   now, ticks, allow_inactive, feedback, session, presence,
                   provision_attempts, resp, redeemed>>

\* verify_email_token: the SELECT by identifier and the is_valid() test on the
\* row just read; a call that fails returns here.
StartVerify(p, tid) ==
    /\ procs[p].pc = "idle"
    /\ UNCHANGED <<db, now, ticks, allow_inactive, feedback, session, presence, mail,
                   provision_attempts, resp, redeemed>>
    /\ IF tid \notin DOMAIN tokens
       THEN UNCHANGED procs
       ELSE IF ~is_valid(tokens[tid], now)
       THEN UNCHANGED procs
       ELSE procs' = [procs EXCEPT ![p] =
                        [pc |-> "verify_save", user |-> tokens[tid].user,
                         tok |-> tid, row |-> tokens[tid]]]

\* verify_email_token: is_used = True on the object, then save() writes the
\* whole row back.
VerifySave(p) ==
    /\ procs[p].pc = "verify_save"
    /\ tokens' = [tokens EXCEPT ![procs[p].tok] =
                     [procs[p].row EXCEPT !.is_used = TRUE]]
    /\ procs' = [procs EXCEPT ![p].pc = "verify_mark"]
    /\ UNCHANGED <<users, patient_profiles, consultant_profiles,
                   now, ticks, allow_inactive, feedback, session, presence, mail,
                   provision_attempts, resp, redeemed>>

\* verify_email_token: load the owner, mark_email_verified(), return it.
VerifyMark(p) ==
    /\ procs[p].pc = "verify_mark"
    /\ users' = mark_email_verified(users, procs[p].user, now)
    /\ redeemed' = [redeemed EXCEPT ![procs[p].tok] = @ + 1]
    /\ procs' = [procs EXCEPT ![p] = IdleProc]
    /\ UNCHANGED <<tokens, patient_profiles, consultant_profiles,
                   now, ticks, allow_inactive, feedback, session, presence, mail,
                   provision_attempts, resp>>

NextConc ==
    \/ \E e \in Mailbox, r \in ROLE_CHOICES :
          Register(e, ValidPassword, ValidPassword, r, TRUE)
    \/ \E p \in Procs, e \in Mailbox : StartResend(p, e)
    \/ \E p \in Procs : ResendCount(p)
    \/ \E p \in Procs : SendInvalidate(p)
    \/ \E p \in Procs : SendCreate(p)
    \/ \E p \in Procs, t \in TokenIds : StartVerify(p, t)
    \/ \E p \in Procs : VerifySave(p)
    \/ \E p \in Procs : VerifyMark(p)

SpecConc == Init /\ [][NextConc]_vars

\* ------------------------------------- registration, one statement per step
\* A registration in flight keeps the validated data in row.
\* views.register: serializer.is_valid(), whose unique validator SELECTs the
\* e-mail as typed.
StartRegister(p, email, role) ==
    /\ procs[p].pc = "idle"
    /\ UNCHANGED <<db, now, ticks, allow_inactive, feedback, redeemed, session, presence,
                   provision_attempts>>
    /\ IF \E i \in DOMAIN users : users[i].email = email
       THEN /\ UNCHANGED procs
            /\ mail' = NoMail
            /\ resp' = Response("register", email, NoToken, 422, NoUser,
                                RegistrationError(users, email, ValidPassword,
                                                  ValidPassword),
                                NoUser, None)
       ELSE /\ procs' = [procs EXCEPT ![p] =
                           [pc |-> "reg_exists", user |-> NoUser,
                            tok |-> NoToken,
                            row |-> [email |-> email, role |-> role]]]
            /\ UNCHANGED <<resp, mail>>

\* register_user: the exists() query on the e-mail as typed.
RegExists(p) ==
    /\ procs[p].pc = "reg_exists"
    /\ UNCHANGED <<db, now, ticks, allow_inactive, feedback, redeemed, session, presence,
                   provision_attempts>>
    /\ IF \E i \in DOMAIN users : users[i].email = procs[p].row.email
       THEN /\ procs' = [procs EXCEPT ![p] = IdleProc]
            /\ mail' = NoMail
            /\ resp' = Response("register", procs[p].row.email, NoToken, 400,
                                NoUser, "User with this email already exists",
                                NoUser, None)
       ELSE /\ procs' = [procs EXCEPT ![p].pc = "reg_create"]
            /\ UNCHANGED <<resp, mail>>

\* register_user: create_user, the INSERT under the unique constraint and the
\* post_save receiver; an IntegrityError ends the request.
RegCreate(p) ==
    /\ procs[p].pc = "reg_create"
    /\ UNCHANGED <<tokens, now, ticks, allow_inactive, feedback, redeemed, session,
                   presence>>
    /\ LET cu == create_user(users, patient_profiles, consultant_profiles,
                             procs[p].row.email, ValidPassword,
                             procs[p].row.role, now)
       IN /\ users' = cu.users
          /\ patient_profiles' = cu.pp
          /\ consultant_profiles' = cu.cp
          /\ IF cu.error # None
             THEN /\ procs' = [procs EXCEPT ![p] = IdleProc]
                  /\ UNCHANGED provision_attempts
                  /\ mail' = NoMail
                  /\ resp' = Response("register", procs[p].row.email, NoToken,
                                      400, NoUser, cu.error, NoUser, None)
             ELSE /\ procs' = [procs EXCEPT ![p].pc = "reg_finish",
                                            ![p].user = cu.user]
                  /\ provision_attempts' =
                        Append(provision_attempts, cu.attempts)
                  /\ UNCHANGED <<resp, mail>>

\* The rest of the request, which touches only the rows of the user just
\* created: the consultant profile INSERT of register_user, then
\* send_verification_email, authenticate_user and update_user_status.
RegFinish(p) ==
    /\ procs[p].pc = "reg_finish"
    /\ procs' = [procs EXCEPT ![p] = IdleProc]
    /\ UNCHANGED <<patient_profiles, now, ticks, allow_inactive, feedback, redeemed,
                   blacklist, cache_up>>
    /\ LET u == procs[p].user
           email == procs[p].row.email
           ins == InsertConsultantProfile(consultant_profiles, u, None)
       IN IF procs[p].row.role = "consultant"
          THEN /\ consultant_profiles' = ins.rows
               /\ provision_attempts' =
                     [provision_attempts EXCEPT ![u] = @ + 1]
               /\ ins.error # None
               /\ mail' = NoMail
               /\ UNCHANGED <<users, tokens, refresh_tokens, cache>>
               /\ resp' = Response("register", email, NoToken, 400, NoUser,
                                   ins.error, NoUser, None)
          ELSE LET s == send_verification_email(tokens, u, now, TRUE)
                   a == authenticate_user(users, email, ValidPassword,
                                          allow_inactive)
               IN /\ UNCHANGED <<consultant_profiles, provision_attempts>>
                  /\ tokens' = s.tokens
                  /\ mail' = [attempts |-> s.attempts, failed |-> ~s.sent]
                  /\ IF a.user # NoUser
                     THEN LET st == UpdateUserStatus(users, cache, a.user, TRUE,
                                                     now, cache_up)
                          IN /\ users' = st.users
                             /\ cache' = st.cache
                             /\ refresh_tokens' =
                                   for_user(refresh_tokens, a.user)
                             /\ resp' = Response("register", email, NoToken,
                                                 201, a.user, None, a.user,
                                                 st.raised)
                     ELSE /\ UNCHANGED <<users, refresh_tokens, cache>>
                          /\ resp' = Response("register", email, NoToken, 500,
                                              NoUser, a.error, NoUser, None)

\* Two workers registering, with every spelling of the addresses.
NextReg ==
    \/ \E p \in Procs, e \in Emails, r \in ROLE_CHOICES : StartRegister(p, e, r)
    \/ \E p \in Procs : RegExists(p)
    \/ \E p \in Procs : RegCreate(p)
    \/ \E p \in Procs : RegFinish(p)

SpecReg == Init /\ [][NextReg]_vars

\* One patient asking for verification mails by both endpoints, before and
\* after redeeming a token.
NextResend ==
    \/ \E e \in Mailbox \cap Lowercase :
          Register(e, ValidPassword, ValidPassword, "patient", TRUE)
    \/ \E t \in TokenIds : VerifyEmail(t)
    \/ \E e \in Mailbox \cap Lowercase, m \in BOOLEAN :
          ResendVerification(e, m)
    \/ \E u \in UserIds, m \in BOOLEAN : SendVerificationAuthenticated(u, m)
    \/ \E d \in TickSteps : Tick(d)

SpecResend == Init /\ [][NextResend]_vars

\* ------------------------------------------------------------------ reviews
RATING_CHOICES == 1..5

ReviewsOf(rs, c) == {x \in rs : x.consultant = c}

RECURSIVE SumRatings(_)
SumRatings(S) ==
    IF S = {} THEN 0
    ELSE LET x == CHOOSE y \in S : TRUE IN x.rating + SumRatings(S \ {x})

\* self.reviews.aggregate(Avg("rating")): a dictionary with the one key
\* rating__avg; the average is kept as sum and count (count 0 is None).
aggregate(rs, c) ==
    [rating__avg |-> [sum |-> SumRatings(ReviewsOf(rs, c)),
                      n |-> Cardinality(ReviewsOf(rs, c))]]

\* round(avg, 2), in hundredths; a tie goes to the even digit.
round2(avg) ==
    LET q == (avg.sum * 100) \div avg.n
        r == (avg.sum * 100) % avg.n
    IN IF 2 * r > avg.n THEN q + 1
       ELSE IF 2 * r = avg.n THEN q + (q % 2)
       ELSE q

\* ConsultantProfile.update_rating: the dictionary is read under the key
\* "rating_avg".
update_rating(ratings, rs, c) ==
    LET agg == aggregate(rs, c) IN
    IF "rating_avg" \notin DOMAIN agg
    THEN [rating |-> ratings, raised |-> "KeyError"]
    ELSE IF agg.rating_avg.n > 0
    THEN [rating |-> [ratings EXCEPT ![c] = round2(agg.rating_avg)],
          raised |-> None]
    ELSE [rating |-> ratings, raised |-> None]

\* A ConsultantProfile row created with a speciality for a user whose role is
\* consultant (clean()).
CreateConsultantProfile(u) ==
    /\ u \in DOMAIN users
    /\ users[u].role = "consultant"
    /\ LET ins == InsertConsultantProfile(consultant_profiles, u, "speciality")
       IN /\ ins.error = None
          /\ consultant_profiles' = ins.rows
    /\ UNCHANGED <<users, tokens, patient_profiles, now, ticks, allow_inactive,
                   resp, redeemed, procs, session, presence, mail,
                   provision_attempts, feedback>>

\* ConsultantReview.save for the review of consultant c by user p (one row
\* per pair: unique_together): the row is written, then update_rating runs.
SaveReview(c, p, r) ==
    /\ c \in consultant_profiles
    /\ p \in DOMAIN users
    /\ reviews' = {x \in reviews : ~(x.consultant = c /\ x.patient = p)}
                     \cup {[consultant |-> c, patient |-> p, rating |-> r]}
    /\ LET ur == update_rating(consultant_rating, reviews', c) IN
       /\ consultant_rating' = ur.rating
       /\ resp' = Response("save_review", NoEmail, NoToken, 0, p, None, NoUser,
                           ur.raised)
    /\ UNCHANGED <<db, now, ticks, allow_inactive, redeemed, procs, session,
                   presence, mail, provision_attempts>>

\* Users of both kinds, consultant profiles, and reviews written and
\* rewritten.
NextReviews ==
    \/ \E e \in Lowercase, r \in {"patient", "consultant"} :
          Register(e, ValidPassword, ValidPassword, r, TRUE)
    \/ \E u \in UserIds : CreateConsultantProfile(u)
    \/ \E c \in UserIds, p \in UserIds, r \in RATING_CHOICES :
          SaveReview(c, p, r)

SpecReviews == Init /\ [][NextReviews]_vars

\* --------------------------------------------------------- the model layer
\* User.mark_email_verified called on a stored user, as verify_email_token
\* calls it on the owner of a token.
MarkEmailVerified(u) ==
    /\ u \in DOMAIN users
    /\ users' = mark_email_verified(users, u, now)
    /\ UNCHANGED <<tokens, patient_profiles, consultant_profiles,
                   now, ticks, allow_inactive, feedback, resp, redeemed, procs,
                   session, presence, mail, provision_attempts>>

\* Users of every role, verified any number of times as the clock runs.
NextModel ==
    \/ \E e \in Lowercase, r \in ROLE_CHOICES, m \in BOOLEAN :
          Register(e, ValidPassword, ValidPassword, r, m)
    \/ \E u \in UserIds : MarkEmailVerified(u)
    \/ \E d \in TickSteps : Tick(d)

SpecModel == Init /\ [][NextModel]_vars

NextAuth ==
    \/ \E e \in Emails, p \in Passwords, c \in Passwords, r \in ROLE_CHOICES,
          m \in BOOLEAN : Register(e, p, c, r, m)
    \/ \E e \in Emails, p \in Passwords : Login(e, p)
    \/ \E u \in DOMAIN users, b \in BOOLEAN : AdminSetActive(u, b)

SpecAuth == InitAuth /\ [][NextAuth]_vars

\* The sessions of one patient: login, logout and refresh with every kind of
\* refresh-token input, while the clock runs and the cache backend comes and
\* goes.
NextSession ==
    \/ \E e \in Mailbox \cap Lowercase :
          Register(e, ValidPassword, ValidPassword, "patient", TRUE)
    \/ \E e \in Mailbox \cap Lowercase : Login(e, ValidPassword)
    \/ \E u \in UserIds, raw \in RefreshInputs : Logout(u, raw)
    \/ \E raw \in RefreshInputs : TokenRefresh(raw)
    \/ \E up \in BOOLEAN : CacheOutage(up)
    \/ Tick(1)

SpecSession == Init /\ [][NextSession]_vars

\* The operations of the service together: two patients register and redeem
\* their tokens; one of them also logs in, logs out, refreshes and asks for
\* new verification mails.
NextService ==
    \/ \E e \in Lowercase :
          Register(e, ValidPassword, ValidPassword, "patient", TRUE)
    \/ \E e \in Mailbox \cap Lowercase : Login(e, ValidPassword)
    \/ \E u \in UserIds : Logout(u, NoToken)
    \/ \E raw \in 0..MaxSessions : TokenRefresh(raw)
    \/ \E t \in TokenIds : VerifyEmail(t)
    \/ \E e \in Mailbox \cap Lowercase : ResendVerification(e, TRUE)
    \/ Tick(TokenLifetime)

SpecService == Init /\ [][NextService]_vars

\* The id of a user who logged in and whose row was then deleted through the
\* admin site: no registration is ever given this id again.
DeletedUser == Cardinality(UserIds) + 1

\* The tables are empty but for the refresh token that user still holds: its
\* signature verifies and it is not blacklisted.
InitRefresh ==
    /\ users = <<>>
    /\ tokens = <<>>
    /\ patient_profiles = {}
    /\ consultant_profiles = {}
    /\ now = 0
    /\ ticks = 0
    /\ allow_inactive = FALSE
    /\ resp = NoResponse
    /\ redeemed = [t \in TokenIds |-> 0]
    /\ procs = [p \in Procs |-> IdleProc]
    /\ refresh_tokens = <<DeletedUser>>
    /\ blacklist = {}
    /\ cache = [u \in UserIds |-> NoEntry]
    /\ cache_up = TRUE
    /\ mail = NoMail
    /\ provision_attempts = <<>>
    /\ reviews = {}
    /\ consultant_rating = [u \in UserIds |-> 0]

SpecRefresh == InitRefresh /\ [][NextSession]_vars

\* ---------------------------------------------------------------- claims
UserTokens(u) == {i \in DOMAIN tokens : tokens[i].user = u}

ValidTokens(u) ==
    {i \in UserTokens(u) : ~tokens[i].is_used /\ now <= tokens[i].expires_at}

AtMostOneValidToken == \A u \in DOMAIN users : Cardinality(ValidTokens(u)) <= 1

\* A step that issued a token: the table grew by one row.
Issued == Len(tokens') = Len(tokens) + 1

\* C1: with requests served one after the other, every user has at most one
\* unused, unexpired verification token in every reachable state, and each
\* issuance leaves the user's earlier tokens used and only the new one unused.
C1_OneValidTokenPerUser ==
    /\ []AtMostOneValidToken
    /\ [][Issued =>
            LET n == Len(tokens')
                u == tokens'[n].user
            IN /\ ~tokens'[n].is_used
               /\ \A i \in DOMAIN tokens :
                     tokens[i].user = u => tokens'[i].is_used]_vars

\* Both mailboxes hold a valid token, and one of them has superseded tokens.
C1_Witness ==
    /\ Len(users) = 2
    /\ \A u \in DOMAIN users : Cardinality(ValidTokens(u)) = 1
    /\ \E u \in DOMAIN users : Cardinality(UserTokens(u)) >= 2

\* C2: the same bound when the issuances of two workers interleave: no state
\* holds two unused, unexpired tokens of one user.
C2_OneValidTokenUnderConcurrency ==
    \A u \in DOMAIN users :
        \A i, j \in UserTokens(u) :
            (i # j /\ ~tokens[i].is_used /\ ~tokens[j].is_used
                   /\ now <= tokens[i].expires_at
                   /\ now <= tokens[j].expires_at) => FALSE

\* C3: redeeming a valid token succeeds, returns its owner, marks the token
\* used and the owner verified; redeeming it again right after (before it
\* expires) fails with the already-used reason and returns no user.
C3_RedeemTwice ==
    [][\A t \in DOMAIN tokens : VerifyEmail(t) =>
          /\ (~tokens[t].is_used /\ now <= tokens[t].expires_at) =>
                /\ resp'.status = 200
                /\ resp'.user = tokens[t].user
                /\ resp'.error = None
                /\ tokens'[t].is_used
                /\ users'[tokens[t].user].is_verified
          /\ (/\ resp.op = "verify_email" /\ resp.token = t
              /\ resp.user # NoUser
              /\ now <= tokens[t].expires_at) =>
                /\ resp'.user = NoUser
                /\ resp'.error = "Verification link has already been used"
                /\ db' = db]_vars

\* The second redemption of a token has been answered: the token was redeemed
\* once, its owner is verified, and the last answer is the already-used one.
C3_Witness ==
    /\ resp.op = "verify_email"
    /\ resp.token \in DOMAIN tokens
    /\ resp.error = "Verification link has already been used"
    /\ redeemed[resp.token] = 1
    /\ users[tokens[resp.token].user].is_verified
    /\ Len(users) = 2

\* C4: redemption is an atomic check-then-mark-used: however two redemptions
\* of one token interleave, at most one of them returns success.
C4_AtMostOneRedemption == \A t \in TokenIds : redeemed[t] <= 1

\* C5: a redemption made after the token's expiry fails with the expired
\* reason, used or not, and leaves every user as it was.
C5_ExpiredTokenRejected ==
    [][\A t \in DOMAIN tokens :
          (VerifyEmail(t) /\ now > tokens[t].expires_at) =>
              /\ resp'.user = NoUser
              /\ resp'.error = "Verification link has expired"
              /\ resp'.status = 400
              /\ users' = users
              /\ tokens' = tokens]_vars

\* A never-used token was refused as expired.
C5_Witness ==
    /\ resp.op = "verify_email"
    /\ resp.token \in DOMAIN tokens
    /\ resp.error = "Verification link has expired"
    /\ ~tokens[resp.token].is_used
    /\ ~users[tokens[resp.token].user].is_verified

\* C6: an identifier that matches no stored token is answered with the pair
\* (no user, "Invalid verification token"); nothing is raised.
C6_UnknownTokenReturnsPair ==
    [][\A t \in TokenIds \ DOMAIN tokens : VerifyEmail(t) =>
          /\ resp'.raised = None
          /\ resp'.user = NoUser
          /\ resp'.error = "Invalid verification token"]_vars

RecentIssuances(u) ==
    Cardinality({i \in UserTokens(u) : now - tokens[i].created_at <= 5})

\* C7: a resend for an unverified user with 3 or more tokens created in the
\* trailing 5 minutes (used or not) is refused with the too-many-requests
\* reason and changes no token; with fewer than 3 it issues a token.
C7_ResendThrottle ==
    [][\A e \in Emails, m \in BOOLEAN :
          LET u == UserByEmail(users, e) IN
          (ResendVerification(e, m) /\ u # NoUser /\ ~users[u].is_verified) =>
              IF RecentIssuances(u) >= 3
              THEN /\ resp'.status = 400
                   /\ resp'.error = "Too many verification emails sent"
                   /\ tokens' = tokens
              ELSE /\ Issued
                   /\ tokens'[Len(tokens')].user = u
                   /\ ~tokens'[Len(tokens')].is_used]_vars

\* Three issuances, the window let elapse, and a fourth issuance granted.
C7_Witness ==
    /\ Len(tokens) = 4
    /\ resp.op = "resend_verification"
    /\ resp.status = 200
    /\ \A i \in 1..3 : tokens[i].created_at = tokens[1].created_at
    /\ tokens[4].created_at > tokens[1].created_at + 5
    /\ tokens[4].created_at = now

\* A registration the serializer accepts for an address no stored user has.
ValidRegistration(e, p, c) ==
    /\ p = c
    /\ PasswordLength(p) >= 8
    /\ \A i \in DOMAIN users : users[i].email # normalize_email(e)

Owners(e) == {i \in DOMAIN users : users[i].email = normalize_email(e)}

\* C8: after a valid registration (any role, unused e-mail) exactly one user
\* has that e-mail and exactly one profile, of the kind of its role, is its.
C8_OneUserOneProfile ==
    [][\A e \in Lowercase, p \in Passwords, c \in Passwords,
          r \in ROLE_CHOICES, m \in BOOLEAN :
          (Register(e, p, c, r, m) /\ ValidRegistration(e, p, c)) =>
              /\ Cardinality(Owners(e)') = 1
              /\ \A u \in Owners(e)' :
                    /\ r = "patient" =>
                          u \in patient_profiles' /\ u \notin consultant_profiles'
                    /\ r = "consultant" =>
                          u \in consultant_profiles' /\ u \notin patient_profiles']_vars

\* C9: a valid registration succeeds for every role: the user comes back with
\* an access and a refresh token, and is then unverified, online and the owner
\* of exactly one verification token, which is unused.
C9_RegistrationSucceeds ==
    [][\A e \in Lowercase, p \in Passwords, c \in Passwords,
          r \in ROLE_CHOICES, m \in BOOLEAN :
          (Register(e, p, c, r, m) /\ ValidRegistration(e, p, c)) =>
              /\ resp'.status = 201
              /\ resp'.user \in Owners(e)'
              /\ resp'.auth = resp'.user
              /\ users'[resp'.user].role = r
              /\ ~users'[resp'.user].is_verified
              /\ users'[resp'.user].is_online
              /\ \E i \in DOMAIN tokens' :
                    /\ tokens'[i].user = resp'.user
                    /\ ~tokens'[i].is_used
                    /\ \A j \in DOMAIN tokens' :
                          tokens'[j].user = resp'.user => j = i]_vars

C11_LogoutAlwaysOffline ==
    [][\A u \in UserIds, raw \in RefreshInputs :
          Logout(u, raw) => ~users'[u].is_online]_vars

\* C12: the blacklist only grows, and a refresh request that presents a
\* revoked refresh token is refused: no access token is returned and no user
\* is touched.
C12_RevokedNeverRefreshes ==
    /\ [][blacklist \subseteq blacklist']_vars
    /\ [][\A raw \in RefreshInputs :
             (TokenRefresh(raw) /\ raw \in blacklist) =>
                 /\ resp'.status = 401
                 /\ resp'.auth = NoUser
                 /\ resp'.error = "Invalid refresh token"
                 /\ users' = users]_vars

\* A token revoked by a logout was presented for a refresh and refused, while
\* another token of the same user is still good.
C12_Witness ==
    /\ resp.op = "token_refresh"
    /\ resp.token \in blacklist
    /\ resp.status = 401
    /\ \E k \in DOMAIN refresh_tokens :
          k \notin blacklist /\ refresh_tokens[k] = refresh_tokens[resp.token]

\* C13: when the delivery fails, send_verification_email returns False and
\* raises nothing, and the issuance stands: exactly one token was added, it is
\* the user's and unused, every earlier token of the user is used, other
\* users' tokens are as they were, and send_mail was called at most once.
C13_DeliveryFailureKeepsIssuance ==
    [][\A e \in Emails :
          LET u == UserByEmail(users, e) IN
          (/\ ResendVerification(e, FALSE)
           /\ u # NoUser
           /\ ~users[u].is_verified
           /\ RecentIssuances(u) < 3) =>
              /\ resp'.raised = None
              /\ resp'.status = 400
              /\ resp'.error = "Failed to send verification email"
              /\ Len(tokens') = Len(tokens) + 1
              /\ tokens'[Len(tokens')].user = u
              /\ ~tokens'[Len(tokens')].is_used
              /\ \A i \in DOMAIN tokens :
                    tokens'[i] = IF tokens[i].user = u
                                 THEN [tokens[i] EXCEPT !.is_used = TRUE]
                                 ELSE tokens[i]
              /\ mail'.attempts <= 1
              /\ mail'.failed]_vars

\* A resend whose delivery failed has replaced the user's previous token.
C13_Witness ==
    /\ resp.op = "resend_verification"
    /\ resp.error = "Failed to send verification email"
    /\ mail.failed
    /\ Len(tokens) >= 2
    /\ ~tokens[Len(tokens)].is_used
    /\ \A i \in 1..(Len(tokens) - 1) : tokens[i].is_used

\* C14: a failed verification mail does not abort the registration: nothing is
\* raised, the user stays created, and the registration goes on to
\* authenticate; when that authentication succeeds the access/refresh pair is
\* issued and the user is marked online.
C14_MailFailureDoesNotAbort ==
    [][\A e \in Emails, p \in Passwords, c \in Passwords, r \in ROLE_CHOICES :
          LET reg == register_user(users, patient_profiles,
                                   consultant_profiles, e, p, r, now)
          IN (/\ resp'.op = "register"
              /\ resp'.email = e
              /\ RegistrationValid(users, e, p, c)
              /\ Register(e, p, c, r, FALSE)
              /\ reg.user # NoUser) =>
                 /\ mail'.failed
                 /\ resp'.raised = None
                 /\ Len(users') = Len(users) + 1
                 /\ users'[reg.user].email = normalize_email(e)
                 /\ IF authenticate(reg.users, e, p, allow_inactive) # NoUser
                    THEN /\ resp'.status = 201
                         /\ resp'.user = reg.user
                         /\ resp'.auth = reg.user
                         /\ users'[reg.user].is_online
                         /\ refresh_tokens' = Append(refresh_tokens, reg.user)
                    ELSE resp'.status = 500]_vars

\* A registration whose verification mail failed was answered 201 and left
\* the new user online with a refresh token.
C14_Witness ==
    /\ resp.op = "register"
    /\ resp.status = 201
    /\ mail.failed
    /\ users[resp.user].is_online
    /\ \E k \in DOMAIN refresh_tokens : refresh_tokens[k] = resp.user
    /\ \E i \in DOMAIN tokens : tokens[i].user = resp.user /\ ~tokens[i].is_used

\* C15: no two users ever share an e-mail, also when two registrations for
\* one address run at the same time and both pass the exists() check.
C15_EmailUnique ==
    \A i, j \in DOMAIN users : i # j => users[i].email # users[j].email

\* Two registrations for one address raced: the address was typed as it is
\* stored, so both passed the checks, and the second INSERT was refused.
C15_Witness ==
    /\ resp.op = "register"
    /\ resp.status = 400
    /\ resp.error = "IntegrityError"
    /\ resp.email \in Lowercase
    /\ Cardinality({i \in DOMAIN users : users[i].email = resp.email}) = 1

\* C16: a registration with an e-mail that already belongs to a user fails
\* with the duplicate-email reason (the serializer's or the service's) and
\* leaves the users, the profiles and the verification tokens as they were.
C16_DuplicateEmailRejected ==
    [][\A e \in Emails, p \in Passwords, c \in Passwords, r \in ROLE_CHOICES,
          m \in BOOLEAN :
          (/\ resp'.op = "register"
           /\ resp'.email = e
           /\ Owners(e) # {}
           /\ Register(e, p, c, r, m)) =>
              /\ resp'.user = NoUser
              /\ resp'.auth = NoUser
              /\ resp'.error \in {"User with this email already exists",
                                  "user with this email already exists."}
              /\ db' = db]_vars

\* C17: profile provisioning is attempted once per user, at creation: no user
\* ever has more than one profile INSERT attempted for it, and no step creates
\* or deletes a profile of, or attempts one for, a user that already existed.
C17_ProvisionedOnceAtCreation ==
    /\ [](\A u \in DOMAIN provision_attempts : provision_attempts[u] <= 1)
    /\ [][\A u \in DOMAIN users :
             /\ (u \in patient_profiles') = (u \in patient_profiles)
             /\ (u \in consultant_profiles') = (u \in consultant_profiles)
             /\ provision_attempts'[u] = provision_attempts[u]]_vars

\* The profile INSERT issued for a new user by create_user failed.
ProfileFailed(e, p, r) ==
    LET cu == create_user(users, patient_profiles, consultant_profiles,
                          e, p, r, now)
    IN /\ cu.user # NoUser
       /\ \/ r = "patient" /\ cu.user \notin cu.pp
          \/ r = "consultant" /\ cu.user \notin cu.cp

\* C18: when the profile creation fails during user creation the failure is
\* swallowed: the user row stays and the registration is not answered as a
\* failed creation.
C18_ProfileFailureSwallowed ==
    [][\A e \in Lowercase, p \in Passwords, c \in Passwords,
          r \in ROLE_CHOICES, m \in BOOLEAN :
          (/\ resp'.op = "register"
           /\ resp'.email = e
           /\ ValidRegistration(e, p, c)
           /\ ProfileFailed(e, p, r)
           /\ Register(e, p, c, r, m)) =>
              /\ Cardinality(Owners(e)') = 1
              /\ resp'.status # 400
              /\ resp'.user \in Owners(e)']_vars

\* C19: mark_email_verified is idempotent: applied to a user it has already
\* been applied to, it leaves is_verified and email_verified_at, and so the
\* whole user, as they were.
C19_MarkVerifiedIdempotent ==
    [][\A u \in UserIds :
          (MarkEmailVerified(u) /\ users[u].is_verified) =>
              /\ users'[u].is_verified = users[u].is_verified
              /\ users'[u].email_verified_at = users[u].email_verified_at
              /\ users' = users]_vars

\* C20: with the cache backend down, every call of update_user_status returns
\* normally and the user's is_online and last_seen are written as requested
\* (online after login and refresh, offline after logout); the cache keeps
\* its old entries.
C20_StatusUpdateSurvivesCacheFailure ==
    [][~cache_up =>
          /\ cache' = cache
          /\ \A e \in Emails :
                LET u == authenticate(users, e, ValidPassword, allow_inactive)
                IN (Login(e, ValidPassword) /\ u # NoUser) =>
                      /\ resp'.raised = None
                      /\ resp'.status = 200
                      /\ users'[u].is_online
                      /\ users'[u].last_seen = now
          /\ \A u \in UserIds, raw \in RefreshInputs :
                (/\ Logout(u, raw)
                 /\ \/ raw = NoToken
                    \/ RefreshToken(refresh_tokens, blacklist, raw).error = None) =>
                      /\ resp'.raised = None
                      /\ resp'.status = 200
                      /\ ~users'[u].is_online
                      /\ users'[u].last_seen = now
          /\ \A raw \in RefreshInputs :
                LET r == RefreshToken(refresh_tokens, blacklist, raw)
                IN (TokenRefresh(raw) /\ raw # NoToken /\ r.error = None) =>
                      /\ resp'.raised = None
                      /\ resp'.status = 200
                      /\ users'[r.user].is_online
                      /\ users'[r.user].last_seen = now]_vars

\* A logout served while the cache was down: the user row says offline as of
\* now, the cache still holds the older online entry.
C20_Witness ==
    /\ ~cache_up
    /\ resp.op = "logout"
    /\ resp.status = 200
    /\ \E u \in DOMAIN users :
          /\ users[u].email = resp.email
          /\ ~users[u].is_online
          /\ users[u].last_seen = now
          /\ cache[u].is_online
          /\ cache[u].last_seen < now

RoundedAverage(rs, c) ==
    LET S == {x \in rs : x.consultant = c}
        n == Cardinality(S)
        q == (SumRatings(S) * 100) \div n
        r == (SumRatings(S) * 100) % n
    IN IF 2 * r > n THEN q + 1
       ELSE IF 2 * r = n /\ q % 2 = 1 THEN q + 1
       ELSE q

\* C22: every write of a review completes without error and leaves the
\* consultant's cached rating equal to the average of all that consultant's
\* reviews, rounded to two decimals.
C22_RatingIsAverage ==
    [][\A c \in UserIds, p \in UserIds, r \in RATING_CHOICES :
          SaveReview(c, p, r) =>
              /\ resp'.raised = None
              /\ consultant_rating'[c] = RoundedAverage(reviews', c)]_vars

\* C23: verification tokens are never deleted and is_used is monotonic: in
\* every step of register, resend, send and verify every stored token stays
\* stored, with its owner and its times, and a used token stays used.
C23_TokensKeptAndUsedMonotonic ==
    [][/\ Len(tokens') >= Len(tokens)
       /\ \A i \in DOMAIN tokens :
             /\ tokens'[i].user = tokens[i].user
             /\ tokens'[i].created_at = tokens[i].created_at
             /\ tokens'[i].expires_at = tokens[i].expires_at
             /\ (tokens[i].is_used => tokens'[i].is_used)]_vars

\* A token consumed by a redemption, one superseded by a newer token, and a
\* newer token issued later, all stored.
C23_Witness ==
    /\ Len(tokens) >= 3
    /\ \E i \in DOMAIN tokens : tokens[i].is_used /\ redeemed[i] > 0
    /\ \E i \in DOMAIN tokens : tokens[i].is_used /\ redeemed[i] = 0
    /\ \E i, j \in DOMAIN tokens :
          tokens[i].user = tokens[j].user /\ tokens[i].created_at < tokens[j].created_at

\* C24: every token is created with expires_at equal to its issue time plus
\* 24 hours, and an unused token is redeemable exactly while now <= expires_at:
\* a redemption at or before expires_at succeeds, a redemption after it is
\* rejected as expired and changes nothing.
C24_ExpiryBoundary ==
    /\ [][Issued =>
            LET tok == tokens'[Len(tokens')] IN
            /\ tok.created_at = now
            /\ tok.expires_at = now + 24 * 60]_vars
    /\ [][\A t \in DOMAIN tokens :
            (VerifyEmail(t) /\ ~tokens[t].is_used) =>
                IF now <= tokens[t].expires_at
                THEN /\ resp'.status = 200
                     /\ resp'.user = tokens[t].user
                     /\ tokens'[t].is_used
                     /\ users'[tokens[t].user].is_verified
                ELSE /\ resp'.status = 400
                     /\ resp'.error = "Verification link has expired"
                     /\ tokens' = tokens
                     /\ users' = users]_vars

\* One token was redeemed at the very instant it expires, and a redemption of
\* another unused token after its expiry has just been rejected as expired.
C24_Witness ==
    /\ resp.op = "verify_email"
    /\ resp.error = "Verification link has expired"
    /\ resp.token \in DOMAIN tokens
    /\ ~tokens[resp.token].is_used
    /\ now > tokens[resp.token].expires_at
    /\ \E i \in DOMAIN tokens :
          /\ redeemed[i] > 0
          /\ users[tokens[i].user].email_verified_at = tokens[i].expires_at

\* The refresh token verifies: it was issued and is not blacklisted.
RefreshValid(raw) == raw \in DOMAIN refresh_tokens /\ raw \notin blacklist

\* C25: token_refresh_custom returns an access token only for a valid refresh
\* token whose user exists, and then marks that user online; for a missing or
\* invalid refresh token or an unknown user it returns an error, no access
\* token, and changes no user's presence.
C25_RefreshOnlyForValidKnown ==
    [][\A raw \in RefreshInputs :
          TokenRefresh(raw) =>
              IF RefreshValid(raw) /\ refresh_tokens[raw] \in DOMAIN users
              THEN /\ resp'.status = 200
                   /\ resp'.auth = refresh_tokens[raw]
                   /\ users'[refresh_tokens[raw]].is_online
                   /\ users'[refresh_tokens[raw]].last_seen = now
              ELSE /\ resp'.status \in {400, 401}
                   /\ resp'.error # None
                   /\ resp'.auth = NoUser
                   /\ users' = users
                   /\ cache' = cache]_vars

\* A refresh with a verifying token of a user who no longer exists has just
\* been refused, while an existing user is online and was seen after time 0.
C25_Witness ==
    /\ resp.op = "token_refresh"
    /\ resp.status = 401
    /\ RefreshValid(resp.token)
    /\ refresh_tokens[resp.token] \notin DOMAIN users
    /\ \E u \in DOMAIN users : users[u].is_online /\ users[u].last_seen > 0

\* C26: is_verified becomes true only through a successful verify_email_token
\* on a token that the same user owns and that was unused and unexpired at
\* the redemption; registration, login, logout, refresh, resend and the status
\* update never set it, and once true it is never reset.
C26_VerifiedOnlyByRedemption ==
    [][\A u \in DOMAIN users' :
          LET was == u \in DOMAIN users /\ users[u].is_verified IN
          /\ was => users'[u].is_verified
          /\ (users'[u].is_verified /\ ~was) =>
                \E t \in DOMAIN tokens :
                   /\ resp'.op = "verify_email"
                   /\ resp'.token = t
                   /\ VerifyEmail(t)
                   /\ resp'.status = 200
                   /\ tokens[t].user = u
                   /\ ~tokens[t].is_used
                   /\ now <= tokens[t].expires_at]_vars

\* A user verified by a redemption, whose earlier token a resend superseded,
\* has just been marked online by a token refresh later than the
\* verification, while another registered user is still unverified.
C26_Witness ==
    /\ resp.op = "token_refresh"
    /\ resp.status = 200
    /\ users[resp.user].is_verified
    /\ users[resp.user].last_seen > users[resp.user].email_verified_at
    /\ \E v \in DOMAIN users : ~users[v].is_verified
    /\ \E i \in DOMAIN tokens :
          tokens[i].user = resp.user /\ tokens[i].is_used /\ redeemed[i] = 0

\* C27: a verify_email_token call that fails (the token is expired, already
\* used or not found) leaves every token's is_used flag and every user's
\* is_verified and email_verified_at unchanged.
C27_FailedVerifyChangesNothing ==
    [][\A t \in TokenIds :
          (resp'.op = "verify_email" /\ resp'.token = t /\ VerifyEmail(t)
             /\ resp'.user = NoUser) =>
              /\ Len(tokens') = Len(tokens)
              /\ \A i \in DOMAIN tokens : tokens'[i].is_used = tokens[i].is_used
              /\ DOMAIN users' = DOMAIN users
              /\ \A u \in DOMAIN users :
                    /\ users'[u].is_verified = users[u].is_verified
                    /\ users'[u].email_verified_at = users[u].email_verified_at]_vars

\* A redemption of an unused token after its expiry has just failed, while a
\* used token, a verified user and an unverified user exist.
C27_Witness ==
    /\ resp.op = "verify_email"
    /\ resp.status = 400
    /\ resp.error = "Verification link has expired"
    /\ ~tokens[resp.token].is_used
    /\ ~users[tokens[resp.token].user].is_verified
    /\ \E i \in DOMAIN tokens : tokens[i].is_used
    /\ \E u \in DOMAIN users : users[u].is_verified

\* C28: when register_user reports failure (no user and an error) no User row
\* has been added: a registration reported as failed leaves the set of users
\* unchanged.
C28_FailedRegistrationAddsNoUser ==
    [][\A e \in Emails, p \in Passwords, c \in Passwords,
          r \in ROLE_CHOICES, m \in BOOLEAN :
          (/\ resp'.op = "register"
           /\ resp'.email = e
           /\ resp'.status = 400
           /\ Register(e, p, c, r, m)) =>
              users' = users]_vars

\* The user's first token (the one registration issued) is less than 5
\* minutes old.
RegisteredRecently(u) ==
    /\ UserTokens(u) # {}
    /\ \A i \in UserTokens(u) : now - tokens[i].created_at < 5

\* C29: the token issued by registration counts toward the resend throttle:
\* for an unverified user registered less than 5 minutes ago, a resend
\* request issues a token while the user has 1 or 2 tokens, and the resend
\* request made with 3 tokens is refused with the too-many-requests reason and
\* leaves the user with 3 tokens.
C29_RegistrationTokenCounts ==
    [][\A e \in Mailbox \cap Lowercase, m \in BOOLEAN :
          LET u == UserByEmail(users, e) IN
          (/\ u # NoUser
           /\ ~users[u].is_verified
           /\ RegisteredRecently(u)
           /\ Cardinality(UserTokens(u)) <= 3
           /\ ResendVerification(e, m)) =>
              IF Cardinality(UserTokens(u)) < 3
              THEN /\ Issued
                   /\ tokens'[Len(tokens')].user = u
              ELSE /\ resp'.status = 400
                   /\ resp'.error = "Too many verification emails sent"
                   /\ tokens' = tokens
                   /\ Cardinality(UserTokens(u)') = 3]_vars

\* A resend request of a user registered less than 5 minutes ago has just
\* been refused: the user has 3 tokens, the registration token and one more
\* of them superseded, and time has passed since the registration.
C29_Witness ==
    /\ resp.op = "resend_verification"
    /\ resp.error = "Too many verification emails sent"
    /\ resp.user \in DOMAIN users
    /\ Cardinality(UserTokens(resp.user)) = 3
    /\ RegisteredRecently(resp.user)
    /\ \E i \in UserTokens(resp.user) : tokens[i].created_at < now
    /\ Cardinality({i \in UserTokens(resp.user) : tokens[i].is_used}) = 2

\* C30: the throttle bound holds under concurrency: in every interleaving of
\* concurrent resend_verification_email calls for one user (a count step, then
\* the issue steps) no user has more than 3 tokens created within the trailing
\* 5 minutes.
C30_ThrottleUnderConcurrency ==
    \A u \in DOMAIN users :
        Cardinality({i \in DOMAIN tokens :
                        /\ tokens[i].user = u
                        /\ tokens[i].created_at >= now - 5}) <= 3

==========================================================================
